---- MODULE Spec2Model ----
(***************************************************************************)
(* The GIF picker panel of ts/components/fun/panels/FunPanelGifs.tsx.      *)
(*   Spec        the debounced query controller                            *)
(*   SpecLive    the same on an event loop that runs the timers that are   *)
(*               due                                                       *)
(*   SpecPages   the infinite pagination engine it drives                  *)
(*               (useInfiniteQuery), with aborted loads that settle late   *)
(*   SpecScroll  the waterfall: scrolling, the prefetch effect and the     *)
(*               roving tab index                                          *)
(*   SpecCache   the two-tier media cache                                  *)
(*   SpecRange   the range extractor                                       *)
(*   SpecLoader  the loader's first call, for every query and section      *)
(*   SpecItem    one Item of the waterfall: its download, its object URL   *)
(*               and a press on it                                         *)
(*   SpecLightbox  the lightbox over an Item and the media cache           *)
(***************************************************************************)
EXTENDS Integers, Sequences, FiniteSets, TLC

VARIABLES
    \* ---- FunPanelGifs (Spec, SpecLive, SpecPages, SpecScroll, SpecLoader)
    searchInput,          \* fun.searchInput: the raw text of the search box
    selectedGifsSection,  \* fun.selectedGifsSection
    recentGifs,           \* fun.recentGifs, as the number of recent gifs
    debouncedQuery,       \* useState<GifsQuery>: the stabilized query
    timeout,              \* the setTimeout of the debounce effect
    queryState,           \* useInfiniteQuery's state
    loads,                \* page loads whose promise has not settled
    lingering,            \* whether an aborted fetch may settle late
    scrollOffset,         \* the scroller's offset, as the first visible index
    selectedItemKey,      \* useState<string | null>
    sinceInput,           \* ticks since the last onSearchInputChange
    sinceQuery,           \* ticks since (section, trimmed text) last changed
    fetchNextCalls,       \* fetchNextPage() calls since count last changed
    ev,                   \* the handler that ran last
    mounted,              \* whether the panel is mounted
    pendingTimers,        \* setTimeout calls neither run nor cleared
    timerEv,              \* what the last step did to the debounce timer
    prefetched,           \* whether the last step's prefetch effect called
                          \* fetchNextPage()
    \* ---- the media cache (SpecCache)
    FunGifBlobCache,      \* LRUCache<string, Blob>, least recently used first
    FunGifBlobLiveCache,  \* WeakMap<GifMediaType, Blob>
    liveRefs,             \* the GifMediaType objects still reachable
    saved,                \* per reachable object, the blob last saved under it
    anyAccess,            \* urls by last read or write, oldest first
    durableAccess,        \* urls by last access of the LRUCache, oldest first
    evicted,              \* what the last cache call evicted
    cacheOp,              \* the last cache call
    \* ---- rangeExtractor (SpecRange)
    rxCount,              \* items.length
    rxRange,              \* the Range handed to rangeExtractor
    rxIndexes,            \* what rangeExtractor returned
    \* ---- Item (SpecItem)
    item,                 \* the Item instance: its gif, its src state
    mounts,               \* Item instances mounted so far
    downloads,            \* fetchGif calls whose promise has not settled
    objectUrls,           \* per object URL created, its Item and its revokes
    logged,               \* the log.error calls
    pressed,              \* the gifs pressed, in order
    outbox,               \* the calls of onSelectGif and onClose, in order
    itemEv,               \* what happened to the Item last
    \* ---- GifsLightbox (SpecLightbox)
    lightbox              \* the lightbox key and what its useMemo came to

panelVars == <<searchInput, selectedGifsSection, recentGifs, debouncedQuery,
               timeout, queryState, loads, lingering, scrollOffset, selectedItemKey,
               sinceInput, sinceQuery, fetchNextCalls, ev, mounted,
               pendingTimers, timerEv, prefetched>>
cacheVars == <<FunGifBlobCache, FunGifBlobLiveCache, liveRefs, saved,
               anyAccess, durableAccess, evicted, cacheOp>>
rangeVars == <<rxCount, rxRange, rxIndexes>>
itemVars == <<item, mounts, downloads, objectUrls, logged, pressed, outbox,
              itemEv, lightbox>>
vars == <<panelVars, cacheVars, rangeVars, itemVars>>

----------------------------------------------------------------------------
\* Bounds of the model

DebounceTicks == 2     \* clock ticks in the 500 ms debounce window
MaxPages == 3          \* the server has at most this many pages per request
ViewItems == 4         \* items the viewport shows
ScrollStep == 9        \* scroll offsets are multiples of this
RecentsLen == 2        \* recent gifs, when there are any
MaxLive == 2           \* GifMediaType objects reachable at a time
MaxCount == 20         \* items in the list rangeExtractor serves
MaxMounts == 3         \* Item instances mounted in a run
MaxPresses == 2        \* presses of an item in a run

----------------------------------------------------------------------------
\* Search text

\* The texts this model types into the search box
SearchInputs == {<<>>, <<" ">>, <<"a">>, <<"a", " ">>, <<"a", "b">>}

RECURSIVE TrimStart(_)
TrimStart(s) ==
    IF s # <<>> /\ Head(s) = " " THEN TrimStart(Tail(s)) ELSE s

RECURSIVE TrimEnd(_)
TrimEnd(s) ==
    IF s # <<>> /\ s[Len(s)] = " "
    THEN TrimEnd(SubSeq(s, 1, Len(s) - 1))
    ELSE s

\* String.prototype.trim
Trim(s) == TrimEnd(TrimStart(s))

\* const searchQuery = useMemo(() => searchInput.trim(), [searchInput])
searchQuery == Trim(searchInput)

----------------------------------------------------------------------------
\* Sections

Recents == "recents"
SearchResults == "search-results"
Trending == "trending"
Celebrate == "celebrate"
Love == "love"
ThumbsUp == "thumbs-up"
Surprised == "surprised"
Excited == "excited"
Sad == "sad"
Angry == "angry"

FunGifsCategory ==
    {Trending, Celebrate, Love, ThumbsUp, Surprised, Excited, Sad, Angry}
FunGifsSection == {Recents, SearchResults} \cup FunGifsCategory

\* The sub-navigation items this model presses
PressedCategories == {Trending, Love}

GifsQuery(section, text) == [selectedSection |-> section, searchQuery |-> text]

----------------------------------------------------------------------------
\* The loader

NoCursor == -1
FIRST_PAGE_LIMIT == 10
NEXT_PAGE_LIMIT == 30

Request(kind, term, limit, cursor) ==
    [kind |-> kind, term |-> term, limit |-> limit, cursor |-> cursor]

\* The term the loader searches for a mood category, as a one-word text
MoodTerm(section) ==
    CASE section = Celebrate -> <<"celebrate">>
      [] section = Love -> <<"love">>
      [] section = ThumbsUp -> <<"thumbs-up">>
      [] section = Surprised -> <<"surprised">>
      [] section = Excited -> <<"excited">>
      [] section = Sad -> <<"sad">>
      [] section = Angry -> <<"angry">>

\* A section value the loader has no case for
UnknownSection == "confused"

\* The loader asking 10 gifs of every page
loaderOneLimit(query, next) ==
    LET limit == FIRST_PAGE_LIMIT
    IN  IF query.searchQuery # <<>>
        THEN Request("search", query.searchQuery, limit, next)
        ELSE IF query.selectedSection = SearchResults
        THEN Request("throw", <<>>, limit, next)
        ELSE IF query.selectedSection = Recents
        THEN Request("recents", <<>>, limit, next)
        ELSE IF query.selectedSection = Trending
        THEN Request("featured", <<>>, limit, next)
        ELSE IF query.selectedSection \in
                  {Celebrate, Love, ThumbsUp, Surprised, Excited, Sad, Angry}
        THEN Request("search", MoodTerm(query.selectedSection), limit, next)
        ELSE Request("throw", <<>>, limit, next)

\* The loader looking at the section before the search text
loaderBySectionFirst(query, next) ==
    LET limit == IF next # NoCursor THEN NEXT_PAGE_LIMIT ELSE FIRST_PAGE_LIMIT
    IN  IF query.selectedSection = Recents
        THEN Request("recents", <<>>, limit, next)
        ELSE IF query.selectedSection = Trending
        THEN Request("featured", <<>>, limit, next)
        ELSE IF query.selectedSection \in
                  {Celebrate, Love, ThumbsUp, Surprised, Excited, Sad, Angry}
        THEN Request("search", MoodTerm(query.selectedSection), limit, next)
        ELSE IF query.searchQuery # <<>>
        THEN Request("search", query.searchQuery, limit, next)
        ELSE Request("throw", <<>>, limit, next)

\* The loader reading the panel's searchQuery instead of its argument's
loaderOfCurrentText(query, next) ==
    LET limit == IF next # NoCursor THEN NEXT_PAGE_LIMIT ELSE FIRST_PAGE_LIMIT
    IN  IF searchQuery # <<>>
        THEN Request("search", searchQuery, limit, next)
        ELSE IF query.selectedSection = Recents
        THEN Request("recents", <<>>, limit, next)
        ELSE IF query.selectedSection = Trending
        THEN Request("featured", <<>>, limit, next)
        ELSE IF query.selectedSection = SearchResults
        THEN Request("throw", <<>>, limit, next)
        ELSE Request("search", MoodTerm(query.selectedSection), limit, next)

\* loader(query, previousPage, signal), as the fetch it makes. `next` is
\* previousPage?.next ?? null. "recents" resolves from recentGifs, "throw" is
\* the strictAssert or the missingCaseError.
loader(query, next) ==
    LET cursor == next
        limit == IF cursor # NoCursor THEN NEXT_PAGE_LIMIT ELSE FIRST_PAGE_LIMIT
    IN  IF query.searchQuery # <<>>
        THEN Request("search", query.searchQuery, limit, cursor)
        ELSE IF query.selectedSection = SearchResults
        THEN Request("throw", <<>>, limit, cursor)
        ELSE IF query.selectedSection = Recents
        THEN Request("recents", <<>>, limit, cursor)
        ELSE IF query.selectedSection = Trending
        THEN Request("featured", <<>>, limit, cursor)
        ELSE IF query.selectedSection \in
                  {Celebrate, Love, ThumbsUp, Surprised, Excited, Sad, Angry}
        THEN Request("search", MoodTerm(query.selectedSection), limit, cursor)
        ELSE Request("throw", <<>>, limit, cursor)

\* What a request asks the server for: the list its gifs come from
Source(req) == [kind |-> req.kind, term |-> req.term]

\* A GifsPaginated: gifs first+1 .. first+n of the list `src`, and the cursor
Page(src, first, n, next) == [src |-> src, first |-> first, n |-> n, next |-> next]

\* { next: null, gifs: recentGifs }
RecentsPage == Page(Source(loader(GifsQuery(Recents, <<>>), NoCursor)),
                    0, recentGifs, NoCursor)

\* The pages the server may answer a request with: a full page or an empty
\* one, and a cursor while it has more
ServerPages(req) ==
    LET first == IF req.cursor = NoCursor THEN 0 ELSE req.cursor
        number == IF req.cursor = NoCursor THEN 1
                  ELSE 2 + (req.cursor - FIRST_PAGE_LIMIT) \div NEXT_PAGE_LIMIT
    IN  {Page(Source(req), first, 0, NoCursor),
         Page(Source(req), first, req.limit, NoCursor)}
        \cup (IF number < MaxPages
              THEN {Page(Source(req), first, req.limit, first + req.limit)}
              ELSE {})

\* hasNextPage(_query, previousPage)
hasNextPage(page) == page.next # NoCursor

\* page.gifs
Gifs(page) == [j \in 1..page.n |-> [src |-> page.src, k |-> page.first + j]]

\* queryState.pages.flatMap(page => page.gifs)
RECURSIVE FlatMapGifs(_)
FlatMapGifs(pages) ==
    IF pages = <<>> THEN <<>>
    ELSE Gifs(Head(pages)) \o FlatMapGifs(Tail(pages))

items == FlatMapGifs(queryState.pages)

\* items.length, of any page sequence
RECURSIVE CountOf(_)
CountOf(pages) ==
    IF pages = <<>> THEN 0 ELSE Head(pages).n + CountOf(Tail(pages))

\* const count = items.length
count == CountOf(queryState.pages)

----------------------------------------------------------------------------
\* useInfiniteQuery: the pagination engine

QueryState(query, pending, rejected, pages, more) ==
    [query |-> query, pending |-> pending, rejected |-> rejected,
     pages |-> pages, hasNextPage |-> more]

\* A load in flight: the query it was issued for, the fetch the loader made
\* and whether its signal is aborted
Load(query, req, aborted) == [query |-> query, req |-> req, aborted |-> aborted]

ActiveLoads(lds) == {l \in lds : ~l.aborted}
StaleLoads(lds) == {l \in lds : l.aborted}

\* controller.abort() on every load in flight. An aborted fetch settles at
\* once unless fetches linger, and then when another aborted one is still in
\* flight.
AbortAll(lds) ==
    LET stale == StaleLoads(lds)
        more == {Load(l.query, l.req, TRUE) : l \in ActiveLoads(lds)}
    IN  IF ~lingering THEN {}
        ELSE IF stale = {} THEN more ELSE stale

\* A first-page load for `query`: the pages are discarded, the loads in
\* flight aborted. The recents and a throwing loader settle in the same task.
StartQuery(query, lds) ==
    LET req == loader(query, NoCursor)
    IN  IF req.kind = "recents"
        THEN [qs |-> QueryState(query, FALSE, FALSE, <<RecentsPage>>,
                                hasNextPage(RecentsPage)),
              loads |-> AbortAll(lds)]
        ELSE IF req.kind = "throw"
        THEN [qs |-> QueryState(query, FALSE, TRUE, <<>>, FALSE),
              loads |-> AbortAll(lds)]
        ELSE [qs |-> QueryState(query, TRUE, FALSE, <<>>, FALSE),
              loads |-> AbortAll(lds) \cup {Load(query, req, FALSE)}]

\* fetchNextPage(): nothing while a load is in flight or without a cursor
FetchNextPage(qs, lds) ==
    IF qs.pending \/ ~qs.hasNextPage
    THEN [qs |-> qs, loads |-> lds]
    ELSE LET last == qs.pages[Len(qs.pages)]
         IN  [qs |-> [qs EXCEPT !.pending = TRUE, !.rejected = FALSE],
              loads |-> lds \cup {Load(qs.query, loader(qs.query, last.next), FALSE)}]

\* The completion without the check of the signal
ResolvedIgnoringAbort(qs, l, page) ==
    [qs EXCEPT !.pending = FALSE,
               !.pages = Append(qs.pages, page),
               !.hasNextPage = hasNextPage(page)]

\* A load's promise resolves with `page`: dropped when its signal is aborted
Resolved(qs, l, page) ==
    IF l.aborted THEN qs
    ELSE [qs EXCEPT !.pending = FALSE,
                    !.pages = Append(qs.pages, page),
                    !.hasNextPage = hasNextPage(page)]

\* A load's promise rejects: dropped when its signal is aborted
Rejected(qs, l) ==
    IF l.aborted THEN qs
    ELSE [qs EXCEPT !.pending = FALSE, !.rejected = TRUE]

----------------------------------------------------------------------------
\* The virtualizer and the prefetch effect

GIF_WATERFALL_COLUMNS == 2
\* overscan: 4 * GIF_WATERFALL_COLUMNS
Overscan == 4 * GIF_WATERFALL_COLUMNS

Min(a, b) == IF a < b THEN a ELSE b
Max(a, b) == IF a > b THEN a ELSE b

\* virtualizer.range: null without items, else the indexes in the viewport
RangeOf(n, offset) ==
    [startIndex |-> Min(offset, n - 1),
     endIndex |-> Min(offset + ViewItems - 1, n - 1),
     overscan |-> Overscan, count |-> n]

\* const lastIndex = virtualizer.range?.endIndex ?? -1
LastIndexOf(n, offset) == IF n = 0 THEN -1 ELSE RangeOf(n, offset).endIndex

lastIndex == LastIndexOf(count, scrollOffset)

\* The effect comparing the last index itself with the end of the list
PrefetchWantedNoOverscan(last, n, more, pending) ==
    IF last = -1 \/ n = 0 \/ ~more \/ pending
    THEN FALSE
    ELSE last >= n - 1

\* The body of the prefetch effect: whether it calls fetchNextPage()
PrefetchWanted(last, n, more, pending) ==
    IF last = -1 \/ n = 0 \/ ~more \/ pending
    THEN FALSE
    ELSE last + Overscan >= n - 1

\* The effect's dependencies
PrefetchDeps(qs, offset) ==
    <<LastIndexOf(CountOf(qs.pages), offset), CountOf(qs.pages),
      qs.hasNextPage, qs.pending>>

\* defaultRangeExtractor of @tanstack/react-virtual
RECURSIVE FromTo(_, _)
FromTo(a, b) == IF a > b THEN <<>> ELSE <<a>> \o FromTo(a + 1, b)

defaultRangeExtractor(range) ==
    FromTo(Max(range.startIndex - range.overscan, 0),
           Min(range.endIndex + range.overscan, range.count - 1))

Includes(seq, x) == \E i \in 1..Len(seq) : seq[i] = x

\* The extractor without its push of the last index
rangeExtractorNoLast(range, n) ==
    LET indexes == defaultRangeExtractor(range)
    IN  IF ~Includes(indexes, 0) THEN <<0>> \o indexes ELSE indexes

\* rangeExtractor(range), with `n` the count of its closure
rangeExtractor(range, n) ==
    LET indexes == defaultRangeExtractor(range)
        first == IF ~Includes(indexes, 0) THEN <<0>> \o indexes ELSE indexes
    IN  IF ~Includes(first, n - 1) THEN Append(first, n - 1) ELSE first

\* virtualizer.getVirtualItems(), as indexes
VirtualIndexes ==
    IF count = 0 THEN <<>> ELSE rangeExtractor(RangeOf(count, scrollOffset), count)

NoKey == [src |-> [kind |-> "null", term |-> <<>>], k |-> 0]

\* items[index] without building the list
RECURSIVE ItemAt(_, _)
ItemAt(pages, index) ==
    IF index < Head(pages).n
    THEN Gifs(Head(pages))[index + 1]
    ELSE ItemAt(Tail(pages), index - Head(pages).n)

\* String(item.key), by getItemKey the id of items[index]
KeyOf(index) == ItemAt(queryState.pages, index)

\* isTabbable of the item rendered at `index`
isTabbable(index) ==
    IF selectedItemKey # NoKey
    THEN KeyOf(index) = selectedItemKey
    ELSE index = 0

TabbableIndexes ==
    {VirtualIndexes[i] : i \in {j \in 1..Len(VirtualIndexes) :
                                    isTabbable(VirtualIndexes[j])}}

----------------------------------------------------------------------------
\* The debounce effect

NoTimeout == [set |-> FALSE, query |-> GifsQuery(Trending, <<>>), remaining |-> 0]
\* A setTimeout whose callback is never scheduled
TimeoutNeverSet(query) ==
    [set |-> FALSE, query |-> query, remaining |-> DebounceTicks]

Timeout(query) == [set |-> TRUE, query |-> query, remaining |-> DebounceTicks]

\* A cleanup that leaves the timer of the previous run pending
clearTimeoutNoOp(n, tm) == n

\* The cleanup of the debounce effect: clearTimeout(timeout), on the count of
\* pending timers. Clearing a timer that has run changes nothing.
clearTimeout(n, tm) == IF tm.set THEN n - 1 ELSE n

\* The effect without its cleanup: the timer of the previous run stays
DebounceEffectKeepsTimer(dq, sec, sq) ==
    IF dq.searchQuery = sq /\ dq.selectedSection = sec
    THEN [dq |-> dq, tm |-> NoTimeout]
    ELSE IF sq = <<>>
    THEN [dq |-> GifsQuery(sec, sq), tm |-> NoTimeout]
    ELSE [dq |-> dq, tm |-> IF timeout.set THEN timeout
                            ELSE Timeout(GifsQuery(sec, sq))]

\* The effect deferring every query, one of empty text as well
DebounceEffectAlwaysDelays(dq, sec, sq) ==
    IF dq.searchQuery = sq /\ dq.selectedSection = sec
    THEN [dq |-> dq, tm |-> NoTimeout]
    ELSE [dq |-> dq, tm |-> Timeout(GifsQuery(sec, sq))]

\* The effect without its timer: every query is applied at once
DebounceEffectNoDelay(dq, sec, sq) ==
    IF dq.searchQuery = sq /\ dq.selectedSection = sec
    THEN [dq |-> dq, tm |-> NoTimeout]
    ELSE [dq |-> GifsQuery(sec, sq), tm |-> NoTimeout]

\* The effect body for the render with section `sec` and trimmed text `sq`,
\* after the cleanup of the previous run
DebounceEffect(dq, sec, sq) ==
    IF dq.searchQuery = sq /\ dq.selectedSection = sec
    THEN [dq |-> dq, tm |-> NoTimeout]
    ELSE IF sq = <<>>
    THEN [dq |-> GifsQuery(sec, sq), tm |-> NoTimeout]
    ELSE [dq |-> dq, tm |-> Timeout(GifsQuery(sec, sq))]

\* The renders and effects that follow a state change: useInfiniteQuery sees
\* the query `dq1`, the scroll-to-top effect and the prefetch effect run
Commit(dq1, tm1, qs0, lds0, off0, name) ==
    LET changed == dq1 # debouncedQuery
        started == IF changed THEN StartQuery(dq1, lds0)
                   ELSE [qs |-> qs0, loads |-> lds0]
        off1 == IF changed THEN 0 ELSE off0
        qs1 == started.qs
        n1 == CountOf(qs1.pages)
        fire == /\ PrefetchDeps(qs1, off1) # PrefetchDeps(queryState, scrollOffset)
                /\ PrefetchWanted(LastIndexOf(n1, off1), n1,
                                  qs1.hasNextPage, qs1.pending)
        fetched == IF fire THEN FetchNextPage(qs1, started.loads) ELSE started
        calls == IF n1 # count \/ changed THEN 0 ELSE fetchNextCalls
    IN  /\ debouncedQuery' = dq1
        /\ timeout' = tm1
        /\ LET fired == name = "timeout"
               reran == tm1 # timeout /\ ~fired
               left == IF fired THEN pendingTimers - 1
                       ELSE IF reran THEN clearTimeout(pendingTimers, timeout)
                       ELSE pendingTimers
           IN  /\ pendingTimers' = left + (IF tm1.set /\ tm1 # timeout THEN 1 ELSE 0)
               /\ timerEv' = IF fired THEN "fired"
                             ELSE IF reran /\ timeout.set /\ tm1.set THEN "restarted"
                             ELSE IF reran /\ timeout.set THEN "cleared"
                             ELSE IF reran THEN "set"
                             ELSE "none"
        /\ queryState' = fetched.qs
        /\ loads' = fetched.loads
        /\ scrollOffset' = off1
        /\ fetchNextCalls' = Min(calls + (IF fire THEN 1 ELSE 0), 2)
        /\ prefetched' = fire
        /\ ev' = name

\* A change of the search text or the section re-renders the panel
Rerender(sec1, sq1, name) ==
    LET rerun == sq1 # searchQuery \/ sec1 # selectedGifsSection
        eff == IF rerun THEN DebounceEffect(debouncedQuery, sec1, sq1)
               ELSE [dq |-> debouncedQuery, tm |-> timeout]
    IN  /\ sinceQuery' = IF rerun THEN 0 ELSE sinceQuery
        /\ Commit(eff.dq, eff.tm, queryState, loads, scrollOffset, name)

----------------------------------------------------------------------------
\* The panel's handlers

\* A handler that leaves the section alone when the text is cleared
SearchInputChangeKeepsSection(nextSearchInput) ==
    /\ nextSearchInput # searchInput
    /\ LET section == IF Trim(nextSearchInput) # <<>> THEN SearchResults
                      ELSE selectedGifsSection
       IN  /\ selectedGifsSection' = section
           /\ searchInput' = nextSearchInput
           /\ sinceInput' = 0
           /\ Rerender(section, Trim(nextSearchInput), "input")
    /\ UNCHANGED <<recentGifs, selectedItemKey, lingering>>

\* handleSearchInputChange(nextSearchInput)
SearchInputChange(nextSearchInput) ==
    /\ nextSearchInput # searchInput
    /\ LET section == IF Trim(nextSearchInput) # <<>> THEN SearchResults
                      ELSE IF recentGifs > 0 THEN Recents
                      ELSE Trending
       IN  /\ selectedGifsSection' = section
           /\ searchInput' = nextSearchInput
           /\ sinceInput' = 0
           /\ Rerender(section, Trim(nextSearchInput), "input")
    /\ UNCHANGED <<recentGifs, selectedItemKey, lingering>>

\* The section the sub-navigation shows as selected
visibleSelectedSection ==
    IF debouncedQuery.selectedSection = SearchResults
    THEN queryState.query.selectedSection
    ELSE debouncedQuery.selectedSection

\* The items of FunSubNavListBox
SubNavItems ==
    IF visibleSelectedSection = SearchResults THEN {}
    ELSE (IF recentGifs > 0 THEN {Recents} ELSE {}) \cup FunGifsCategory

\* handleSelectSection(key)
SelectSection(key) ==
    /\ key \in SubNavItems
    /\ key # selectedGifsSection
    /\ selectedGifsSection' = key
    /\ Rerender(key, searchQuery, "section")
    /\ UNCHANGED <<searchInput, recentGifs, selectedItemKey, sinceInput, lingering>>

\* Time passes; a timeout that is due runs first
Tick ==
    /\ timeout.set => timeout.remaining > 0
    /\ timeout' = IF timeout.set
                  THEN [timeout EXCEPT !.remaining = timeout.remaining - 1]
                  ELSE timeout
    /\ sinceInput' = Min(sinceInput + 1, DebounceTicks)
    /\ sinceQuery' = Min(sinceQuery + 1, DebounceTicks)
    /\ ev' = "tick"
    /\ timerEv' = "none"
    /\ prefetched' = FALSE
    /\ UNCHANGED pendingTimers
    /\ UNCHANGED <<searchInput, selectedGifsSection, recentGifs, debouncedQuery,
                   queryState, loads, lingering, scrollOffset, selectedItemKey,
                   fetchNextCalls>>

\* The callback of setTimeout: setDebouncedQuery(query); the effect then
\* runs again and returns early
TimeoutFires ==
    /\ timeout.set /\ timeout.remaining = 0
    /\ LET eff == DebounceEffect(timeout.query, selectedGifsSection, searchQuery)
       IN  Commit(eff.dq, eff.tm, queryState, loads, scrollOffset, "timeout")
    /\ UNCHANGED <<searchInput, selectedGifsSection, recentGifs, selectedItemKey, lingering,
                   sinceInput, sinceQuery>>

\* The fetch of a load resolves with a page of the server
LoadResolves(l, page) ==
    /\ l \in loads
    /\ page \in ServerPages(l.req)
    /\ Commit(debouncedQuery, timeout, Resolved(queryState, l, page),
              loads \ {l}, scrollOffset,
              IF l.aborted THEN "dropped" ELSE "resolve")
    /\ UNCHANGED <<searchInput, selectedGifsSection, recentGifs, selectedItemKey, lingering,
                   sinceInput, sinceQuery>>

\* The fetch of a load rejects: the network fails, or its signal is aborted
LoadRejects(l) ==
    /\ l \in loads
    /\ Commit(debouncedQuery, timeout, Rejected(queryState, l),
              loads \ {l}, scrollOffset,
              IF l.aborted THEN "dropped" ELSE "reject")
    /\ UNCHANGED <<searchInput, selectedGifsSection, recentGifs, selectedItemKey, lingering,
                   sinceInput, sinceQuery>>

\* The offsets this model scrolls to
ScrollStops == {o \in 0..(count - 1) : o % ScrollStep = 0}

\* The user scrolls
Scroll(offset) ==
    /\ offset \in ScrollStops
    /\ offset # scrollOffset
    /\ Commit(debouncedQuery, timeout, queryState, loads, offset, "scroll")
    /\ UNCHANGED <<searchInput, selectedGifsSection, recentGifs, selectedItemKey, lingering,
                   sinceInput, sinceQuery>>

\* The rendered items the keyboard moves the focus to in this model: the
\* first, the last and the first visible one
FocusTargets ==
    {i \in {0, scrollOffset, count - 1} : Includes(VirtualIndexes, i)}

\* handleKeyboardStateChange(state), with state.key the key of item `index`
KeyboardFocus(index) ==
    /\ index \in FocusTargets
    /\ selectedItemKey' = KeyOf(index)
    /\ ev' = "focus"
    /\ timerEv' = "none"
    /\ prefetched' = FALSE
    /\ UNCHANGED pendingTimers
    /\ UNCHANGED <<searchInput, selectedGifsSection, recentGifs, debouncedQuery,
                   timeout, queryState, loads, lingering, scrollOffset,
                   sinceInput, sinceQuery, fetchNextCalls>>

\* handleRetry(): revalidate(), from the button shown while nothing is listed
\* and the load was rejected
Retry ==
    /\ count = 0 /\ queryState.rejected
    /\ LET started == StartQuery(queryState.query, loads)
       IN  Commit(debouncedQuery, timeout, started.qs, started.loads,
                  scrollOffset, "retry")
    /\ UNCHANGED <<searchInput, selectedGifsSection, recentGifs, selectedItemKey, lingering,
                   sinceInput, sinceQuery>>

\* The panel unmounts: the cleanup of the debounce effect clears its timer,
\* the engine aborts the loads in flight
Unmount ==
    /\ mounted
    /\ mounted' = FALSE
    /\ timeout' = NoTimeout
    /\ pendingTimers' = clearTimeout(pendingTimers, timeout)
    /\ timerEv' = IF timeout.set THEN "cleared" ELSE "none"
    /\ loads' = AbortAll(loads)
    /\ prefetched' = FALSE
    /\ ev' = "unmount"
    /\ UNCHANGED <<searchInput, selectedGifsSection, recentGifs, debouncedQuery,
                   queryState, lingering, scrollOffset, selectedItemKey,
                   sinceInput, sinceQuery, fetchNextCalls>>

----------------------------------------------------------------------------
\* The media cache: FunGifBlobCache and FunGifBlobLiveCache

MB == 1048576
\* const MAX_CACHE_SIZE = 50 * 1024 * 1024
MAX_CACHE_SIZE == 50 * MB

\* The downloads of this model: their content and their byte size
Blobs == {[data |-> "b1", size |-> 20 * MB],
          [data |-> "b2", size |-> 30 * MB],
          [data |-> "b3", size |-> 60 * MB]}
NoBlob == [data |-> "null", size |-> 0]

\* The GifMediaType objects of this model: two of them carry one url
GifMedia == {[url |-> "u1", object |-> 1], [url |-> "u1", object |-> 2],
             [url |-> "u2", object |-> 1], [url |-> "u3", object |-> 1]}

Entry(key, value) == [key |-> key, value |-> value]

Keys(cache) == {cache[i].key : i \in DOMAIN cache}

RECURSIVE calculatedSize(_)
calculatedSize(cache) ==
    IF cache = <<>> THEN 0
    \* sizeCalculation: blob => blob.size
    ELSE Head(cache).value.size + calculatedSize(Tail(cache))

RECURSIVE Without(_, _)
Without(seq, key) ==
    IF seq = <<>> THEN <<>>
    ELSE IF Head(seq).key = key THEN Without(Tail(seq), key)
    ELSE <<Head(seq)>> \o Without(Tail(seq), key)

\* LRUCache: evict the least recently used entries until `size` more fits
RECURSIVE EvictFor(_, _)
EvictFor(cache, size) ==
    IF cache # <<>> /\ calculatedSize(cache) > MAX_CACHE_SIZE - size
    THEN EvictFor(Tail(cache), size)
    ELSE cache

\* A set that evicts nothing
LruSetNoEvict(cache, key, value) ==
    IF value.size > MAX_CACHE_SIZE
    THEN Without(cache, key)
    ELSE Append(Without(cache, key), Entry(key, value))

\* LRUCache.set(key, value): an entry larger than maxSize is not stored and
\* the key's entry deleted; otherwise the entry becomes the most recently used
LruSet(cache, key, value) ==
    IF value.size > MAX_CACHE_SIZE
    THEN Without(cache, key)
    ELSE Append(EvictFor(Without(cache, key), value.size), Entry(key, value))

LruHas(cache, key) == key \in Keys(cache)

LruPeek(cache, key) ==
    IF LruHas(cache, key)
    THEN (CHOOSE e \in {cache[i] : i \in DOMAIN cache} : e.key = key).value
    ELSE NoBlob

\* A get that leaves the recency alone, as LRUCache.peek
LruGetNoTouch(cache, key) ==
    [value |-> LruPeek(cache, key), cache |-> cache]

\* LRUCache.get(key): the value, and the entry becomes the most recently used
LruGet(cache, key) ==
    IF LruHas(cache, key)
    THEN [value |-> LruPeek(cache, key),
          cache |-> Append(Without(cache, key), Entry(key, LruPeek(cache, key)))]
    ELSE [value |-> NoBlob, cache |-> cache]

\* WeakMap.get
LiveGet(live, gifMedia) ==
    IF gifMedia \in DOMAIN live THEN live[gifMedia] ELSE NoBlob

\* The read with its tiers in the other order
readDurableFirst(live, cache, gifMedia) ==
    LET got == LruGet(cache, gifMedia.url)
    IN  IF got.value # NoBlob
        THEN [blob |-> got.value, cache |-> got.cache]
        ELSE [blob |-> LiveGet(live, gifMedia), cache |-> cache]

\* readGifMediaFromCache(gifMedia): the blob, and the LRUCache after the call
readGifMediaFromCache(live, cache, gifMedia) ==
    IF LiveGet(live, gifMedia) # NoBlob
    THEN [blob |-> LiveGet(live, gifMedia), cache |-> cache]
    ELSE LET got == LruGet(cache, gifMedia.url)
         IN  [blob |-> got.value, cache |-> got.cache]

\* A save that writes the LRUCache alone
saveDurableOnly(live, cache, gifMedia, blob) ==
    [cache |-> LruSet(cache, gifMedia.url, blob), live |-> live]

\* saveGifMediaToCache(gifMedia, blob): both tiers after the call
saveGifMediaToCache(live, cache, gifMedia, blob) ==
    [cache |-> LruSet(cache, gifMedia.url, blob),
     live |-> (gifMedia :> blob) @@ live]

\* A url moved to the end of an access order
Touch(order, url) ==
    Append(SelectSeq(order, LAMBDA u : u # url), url)

\* Whether `a` comes before `b` in an access order
Before(order, a, b) ==
    \E i, j \in DOMAIN order : i < j /\ order[i] = a /\ order[j] = b

\* An item list arrives: a GifMediaType object becomes reachable
NewMedia(gifMedia) ==
    /\ gifMedia \notin liveRefs
    /\ Cardinality(liveRefs) < MaxLive
    /\ liveRefs' = liveRefs \cup {gifMedia}
    /\ cacheOp' = [op |-> "new", media |-> gifMedia, blob |-> NoBlob]
    /\ evicted' = {}
    /\ UNCHANGED <<FunGifBlobCache, FunGifBlobLiveCache, saved, anyAccess,
                   durableAccess>>

\* The item list is discarded: the object is collected, and with it its
\* WeakMap entry
DropMedia(gifMedia) ==
    /\ gifMedia \in liveRefs
    /\ liveRefs' = liveRefs \ {gifMedia}
    /\ FunGifBlobLiveCache' =
           [m \in DOMAIN FunGifBlobLiveCache \ {gifMedia} |-> FunGifBlobLiveCache[m]]
    /\ saved' = [m \in DOMAIN saved \ {gifMedia} |-> saved[m]]
    /\ cacheOp' = [op |-> "drop", media |-> gifMedia, blob |-> NoBlob]
    /\ evicted' = {}
    /\ UNCHANGED <<FunGifBlobCache, anyAccess, durableAccess>>

\* A call of readGifMediaFromCache(gifMedia)
ReadMedia(gifMedia) ==
    /\ gifMedia \in liveRefs
    /\ LET read == readGifMediaFromCache(FunGifBlobLiveCache, FunGifBlobCache,
                                         gifMedia)
           reachedLru == /\ LiveGet(FunGifBlobLiveCache, gifMedia) = NoBlob
                         /\ LruHas(FunGifBlobCache, gifMedia.url)
       IN  /\ FunGifBlobCache' = read.cache
           /\ cacheOp' = [op |-> "read", media |-> gifMedia, blob |-> read.blob]
           /\ anyAccess' = IF read.blob # NoBlob
                           THEN Touch(anyAccess, gifMedia.url) ELSE anyAccess
           /\ durableAccess' = IF reachedLru
                               THEN Touch(durableAccess, gifMedia.url)
                               ELSE durableAccess
    /\ evicted' = {}
    /\ UNCHANGED <<FunGifBlobLiveCache, liveRefs, saved>>

\* A call of saveGifMediaToCache(gifMedia, blob)
SaveMedia(gifMedia, blob) ==
    /\ gifMedia \in liveRefs
    /\ LET save == saveGifMediaToCache(FunGifBlobLiveCache, FunGifBlobCache,
                                       gifMedia, blob)
       IN  /\ FunGifBlobCache' = save.cache
           /\ FunGifBlobLiveCache' = save.live
           /\ evicted' = IF blob.size > MAX_CACHE_SIZE THEN {}
                         ELSE Keys(FunGifBlobCache) \ Keys(save.cache)
    /\ saved' = (gifMedia :> blob) @@ saved
    /\ cacheOp' = [op |-> "save", media |-> gifMedia, blob |-> blob]
    /\ anyAccess' = Touch(anyAccess, gifMedia.url)
    /\ durableAccess' = Touch(durableAccess, gifMedia.url)
    /\ UNCHANGED liveRefs

----------------------------------------------------------------------------
\* Item: one rendered gif, its preview download and its object URL

\* The GifType objects of this model. The second is the first as another
\* list carries it: the same id and url, another object.
GifTypes ==
    {[id |-> "g1", title |-> "t1", description |-> "d1",
      previewMedia |-> [url |-> "u1", object |-> 1],
      attachmentMedia |-> [url |-> "a1", width |-> 200, height |-> 100]],
     [id |-> "g1", title |-> "t1", description |-> "d1",
      previewMedia |-> [url |-> "u1", object |-> 2],
      attachmentMedia |-> [url |-> "a1", width |-> 200, height |-> 100]],
     [id |-> "g2", title |-> "t2", description |-> "d2",
      previewMedia |-> [url |-> "u2", object |-> 1],
      attachmentMedia |-> [url |-> "a2", width |-> 300, height |-> 150]]}

\* src === null; an object URL is the number of its creation
NoSrc == 0

NoItem == [mounted |-> FALSE, instance |-> 0, src |-> NoSrc,
           gif |-> CHOOSE g \in GifTypes : g.id = "g1" /\ g.previewMedia.object = 1]

\* A fetchGif call in flight: the gif and the Item instance it is for, and
\* whether the signal it was given is aborted
Download(gif, instance, aborted) ==
    [gif |-> gif, instance |-> instance, aborted |-> aborted]

\* URL.createObjectURL(blob), for the Item instance that calls it
createObjectURL(urls, instance) ==
    Append(urls, [owner |-> instance, revoked |-> 0])

\* URL.revokeObjectURL(src)
revokeObjectURL(urls, src) ==
    [urls EXCEPT ![src].revoked = @ + 1]

\* A revoke effect without its cleanup
RevokeCleanupNever(urls, src) == urls

\* The cleanup of the revoke effect, for the src of the render it closes
RevokeCleanup(urls, src) ==
    IF src # NoSrc THEN revokeObjectURL(urls, src) ELSE urls

\* A download effect without its cleanup
DownloadCleanupNoAbort(ds, instance) == ds

\* The cleanup of the download effect of `instance`: controller.abort()
DownloadCleanup(ds, instance) ==
    {IF d.instance = instance THEN Download(d.gif, d.instance, TRUE) ELSE d :
        d \in ds}

\* How a fetchGif call may settle: with the bytes or a failure of the
\* network, and with an AbortError once its signal is aborted
FetchGifOutcomes(d) ==
    IF d.aborted THEN {"AbortError"} ELSE {"bytes", "NetworkError"}

\* A test that takes every error for an abort
isAbortErrorOfAny(error) == TRUE

isAbortError(error) == error = "AbortError"

\* The selection built from the preview's media
FunGifSelectionOfPreview(gif) ==
    [id |-> gif.id, title |-> gif.title, description |-> gif.description,
     url |-> gif.previewMedia.url,
     width |-> gif.attachmentMedia.width,
     height |-> gif.attachmentMedia.height]

\* The selection handleClick builds from props.gif
FunGifSelection(gif) ==
    [id |-> gif.id, title |-> gif.title, description |-> gif.description,
     url |-> gif.attachmentMedia.url,
     width |-> gif.attachmentMedia.width,
     height |-> gif.attachmentMedia.height]

\* handlePressGif(_event, gifSelection): the calls it makes, in order
handlePressGif(gifSelection) ==
    <<[call |-> "onSelectGif", selection |-> {gifSelection}],
      [call |-> "onClose", selection |-> {}]>>

\* An Item mounts for `gif`: the useState initializer reads the cache, the
\* download effect starts a download when it found nothing
ItemMount(gif) ==
    /\ ~item.mounted
    /\ mounts < MaxMounts
    /\ LET cached == readGifMediaFromCache(FunGifBlobLiveCache, FunGifBlobCache,
                                           gif.previewMedia)
           hit == cached.blob # NoBlob
           instance == mounts + 1
       IN  /\ item' = [mounted |-> TRUE, instance |-> instance, gif |-> gif,
                       src |-> IF hit THEN Len(objectUrls) + 1 ELSE NoSrc]
           /\ objectUrls' = IF hit THEN createObjectURL(objectUrls, instance)
                            ELSE objectUrls
           /\ downloads' = IF hit THEN downloads
                           ELSE downloads \cup {Download(gif, instance, FALSE)}
           /\ FunGifBlobCache' = cached.cache
           /\ cacheOp' = [op |-> "read", media |-> gif.previewMedia,
                          blob |-> cached.blob]
           /\ mounts' = instance
    /\ itemEv' = "mount"
    /\ UNCHANGED <<FunGifBlobLiveCache, liveRefs, saved, anyAccess,
                   durableAccess, evicted, logged, pressed, outbox, lightbox>>

\* The Item unmounts: the cleanups of its effects run. The download effect
\* has a cleanup when its last run found src null.
ItemUnmount ==
    /\ item.mounted
    /\ item' = [item EXCEPT !.mounted = FALSE]
    /\ downloads' = IF item.src = NoSrc
                    THEN DownloadCleanup(downloads, item.instance)
                    ELSE downloads
    /\ objectUrls' = RevokeCleanup(objectUrls, item.src)
    /\ itemEv' = "unmount"
    /\ UNCHANGED <<cacheVars, mounts, logged, pressed, outbox, lightbox>>

\* download() after its await: the cache write and setSrc, or the catch
DownloadSettles(d, outcome, blob) ==
    /\ d \in downloads
    /\ outcome \in FetchGifOutcomes(d)
    /\ downloads' = downloads \ {d}
    /\ itemEv' = outcome
    /\ IF outcome = "bytes"
       THEN LET save == saveGifMediaToCache(FunGifBlobLiveCache,
                                            FunGifBlobCache,
                                            d.gif.previewMedia, blob)
                created == createObjectURL(objectUrls, d.instance)
                rendered == item.mounted /\ item.instance = d.instance
            IN  /\ FunGifBlobCache' = save.cache
                /\ FunGifBlobLiveCache' = save.live
                /\ cacheOp' = [op |-> "save", media |-> d.gif.previewMedia,
                               blob |-> blob]
                /\ item' = IF rendered
                           THEN [item EXCEPT !.src = Len(created)]
                           ELSE item
                /\ objectUrls' = IF rendered
                                 THEN RevokeCleanup(created, item.src)
                                 ELSE created
                /\ UNCHANGED logged
       ELSE /\ logged' = IF isAbortError(outcome) THEN logged
                         ELSE logged \cup {[instance |-> d.instance,
                                            error |-> outcome]}
            /\ UNCHANGED <<FunGifBlobCache, FunGifBlobLiveCache, cacheOp, item,
                           objectUrls>>
    /\ UNCHANGED <<liveRefs, saved, anyAccess, durableAccess, evicted, mounts,
                   pressed, outbox, lightbox>>

\* The user presses the item: handleClick, then handlePressGif
PressGif ==
    /\ item.mounted
    /\ Len(pressed) < MaxPresses
    /\ pressed' = Append(pressed, item.gif)
    /\ outbox' = outbox \o handlePressGif(FunGifSelection(item.gif))
    /\ itemEv' = "press"
    /\ UNCHANGED <<cacheVars, item, mounts, downloads, objectUrls, logged,
                   lightbox>>

----------------------------------------------------------------------------
\* GifsLightbox

\* useFunLightboxKey() === null
NoLightboxKey == "null"

NoLightbox == [key |-> NoLightboxKey, result |-> "null", urls |-> 0]

\* The useMemo of GifsLightbox for the key of `gif`, an item of props.items,
\* given what the cache read returned
GifsLightboxResult(gif, blob) ==
    IF blob = NoBlob
    THEN [key |-> gif.id, result |-> "Missing media", urls |-> 0]
    ELSE [key |-> gif.id, result |-> "shown", urls |-> 1]

\* The lightbox key becomes the key of the rendered Item: the useMemo of
\* GifsLightbox finds its gif in props.items and reads its preview from the
\* cache
LightboxOpens ==
    /\ item.mounted
    /\ lightbox.key = NoLightboxKey
    /\ LET read == readGifMediaFromCache(FunGifBlobLiveCache, FunGifBlobCache,
                                         item.gif.previewMedia)
       IN  /\ lightbox' = GifsLightboxResult(item.gif, read.blob)
           /\ FunGifBlobCache' = read.cache
           /\ cacheOp' = [op |-> "read", media |-> item.gif.previewMedia,
                          blob |-> read.blob]
    /\ itemEv' = "lightbox"
    /\ UNCHANGED <<FunGifBlobLiveCache, liveRefs, saved, anyAccess,
                   durableAccess, evicted, item, mounts, downloads, objectUrls,
                   logged, pressed, outbox>>

\* The lightbox key becomes null: the cleanup of the effect revokes the
\* object URL of the result
LightboxCloses ==
    /\ lightbox.key # NoLightboxKey
    /\ lightbox' = NoLightbox
    /\ itemEv' = "lightbox-closed"
    /\ UNCHANGED <<cacheVars, item, mounts, downloads, objectUrls, logged,
                   pressed, outbox>>

\* The preview media of an item rendered beside the Item of this model
OtherPreviewMedia == [url |-> "u3", object |-> 1]

\* The download of another rendered Item completes: it saves its blob
OtherItemSaves(blob) ==
    /\ LET save == saveGifMediaToCache(FunGifBlobLiveCache, FunGifBlobCache,
                                       OtherPreviewMedia, blob)
       IN  /\ FunGifBlobCache' = save.cache
           /\ FunGifBlobLiveCache' = save.live
           /\ FunGifBlobCache' # FunGifBlobCache
                  \/ FunGifBlobLiveCache' # FunGifBlobLiveCache
    /\ cacheOp' = [op |-> "save", media |-> OtherPreviewMedia, blob |-> blob]
    /\ itemEv' = "other-save"
    /\ UNCHANGED <<liveRefs, saved, anyAccess, durableAccess, evicted, item,
                   mounts, downloads, objectUrls, logged, pressed, outbox,
                   lightbox>>

----------------------------------------------------------------------------
\* Initial values of the variables a specification leaves alone

PanelIdle ==
    /\ searchInput = <<>>
    /\ selectedGifsSection = Trending
    /\ recentGifs = 0
    /\ debouncedQuery = GifsQuery(Trending, <<>>)
    /\ timeout = NoTimeout
    /\ queryState = QueryState(debouncedQuery, FALSE, FALSE, <<>>, FALSE)
    /\ loads = {}
    /\ lingering = FALSE
    /\ scrollOffset = 0
    /\ selectedItemKey = NoKey
    /\ sinceInput = 0
    /\ sinceQuery = 0
    /\ fetchNextCalls = 0
    /\ ev = "none"
    /\ mounted = FALSE
    /\ pendingTimers = 0
    /\ timerEv = "none"
    /\ prefetched = FALSE

CacheIdle ==
    /\ FunGifBlobCache = <<>>
    /\ FunGifBlobLiveCache = <<>>
    /\ liveRefs = {}
    /\ saved = <<>>
    /\ anyAccess = <<>>
    /\ durableAccess = <<>>
    /\ evicted = {}
    /\ cacheOp = [op |-> "none", media |-> [url |-> "null", object |-> 0],
                  blob |-> NoBlob]

RangeIdle ==
    /\ rxCount = 0
    /\ rxRange = RangeOf(0, 0)
    /\ rxIndexes = <<>>

ItemIdle ==
    /\ item = NoItem
    /\ mounts = 0
    /\ downloads = {}
    /\ objectUrls = <<>>
    /\ logged = {}
    /\ pressed = <<>>
    /\ outbox = <<>>
    /\ itemEv = "none"
    /\ lightbox = NoLightbox

----------------------------------------------------------------------------
\* The panel, from its mount

Mount(linger) ==
    /\ searchInput = <<>>
    /\ recentGifs \in {0, RecentsLen}
    /\ selectedGifsSection \in
           (IF recentGifs > 0 THEN {Recents} ELSE {}) \cup PressedCategories
    /\ debouncedQuery = GifsQuery(selectedGifsSection, Trim(searchInput))
    /\ timeout = NoTimeout
    /\ lingering = linger
    /\ LET started == StartQuery(debouncedQuery, {})
       IN  queryState = started.qs /\ loads = started.loads
    /\ scrollOffset = 0
    /\ selectedItemKey = NoKey
    /\ sinceInput = DebounceTicks
    /\ sinceQuery = DebounceTicks
    /\ fetchNextCalls = 0
    /\ ev = "mount"
    /\ mounted = TRUE
    /\ pendingTimers = 0
    /\ timerEv = "none"
    /\ prefetched = FALSE
    /\ CacheIdle
    /\ RangeIdle
    /\ ItemIdle

\* A step of the panel leaves the cache and the extractor's record alone
PanelStep(A) ==
    mounted /\ A /\ UNCHANGED <<mounted, cacheVars, rangeVars, itemVars>>

\* A step of the cache leaves the panel and the extractor's record alone
CacheStep(A) == A /\ UNCHANGED <<panelVars, rangeVars, itemVars>>

\* The query controller: typing, the sub-navigation, the debounce timer and
\* the loads of the queries it stabilizes; aborted fetches settle at once
Init == Mount(FALSE)

Next ==
    \/ \E s \in SearchInputs : PanelStep(SearchInputChange(s))
    \/ \E key \in PressedCategories \cup {Recents} : PanelStep(SelectSection(key))
    \/ PanelStep(Tick)
    \/ PanelStep(TimeoutFires)
    \/ \E l \in loads : \E page \in ServerPages(l.req) :
           PanelStep(LoadResolves(l, page))
    \/ \E l \in loads : PanelStep(LoadRejects(l))
    \/ PanelStep(Retry)
    \/ Unmount /\ UNCHANGED <<cacheVars, rangeVars, itemVars>>

Spec == Init /\ [][Next]_vars

\* The query controller on an event loop that lets time pass and runs the
\* callback of a timer that is due
SpecLive ==
    /\ Init
    /\ [][Next]_vars
    /\ WF_vars(PanelStep(Tick))
    /\ WF_vars(PanelStep(TimeoutFires))

\* The pagination engine under section changes, with aborted fetches that
\* settle late
InitPages == Mount(TRUE)

NextPages ==
    \/ \E s \in {<<>>, <<"a">>} : PanelStep(SearchInputChange(s))
    \/ PanelStep(Tick)
    \/ PanelStep(TimeoutFires)
    \/ \E key \in PressedCategories \cup {Recents} : PanelStep(SelectSection(key))
    \/ \E l \in loads : \E page \in ServerPages(l.req) :
           PanelStep(LoadResolves(l, page))
    \/ \E l \in loads : PanelStep(LoadRejects(l))
    \/ PanelStep(Retry)

SpecPages == InitPages /\ [][NextPages]_vars

\* The waterfall: scrolling, the prefetch effect and the keyboard focus
InitScroll == Mount(FALSE)

NextScroll ==
    \/ \E key \in PressedCategories \cup {Recents} : PanelStep(SelectSection(key))
    \/ \E l \in loads : \E page \in ServerPages(l.req) :
           PanelStep(LoadResolves(l, page))
    \/ \E l \in loads : PanelStep(LoadRejects(l))
    \/ PanelStep(Retry)
    \/ \E offset \in ScrollStops : PanelStep(Scroll(offset))
    \/ \E index \in FocusTargets : PanelStep(KeyboardFocus(index))

SpecScroll == InitScroll /\ [][NextScroll]_vars

----------------------------------------------------------------------------
\* The media cache under any calls, from the module's load

InitCache == PanelIdle /\ CacheIdle /\ RangeIdle /\ ItemIdle

NextCache ==
    \/ \E m \in GifMedia : CacheStep(NewMedia(m))
    \/ \E m \in GifMedia : CacheStep(DropMedia(m))
    \/ \E m \in GifMedia : CacheStep(ReadMedia(m))
    \/ \E m \in GifMedia : \E blob \in Blobs : CacheStep(SaveMedia(m, blob))

SpecCache == InitCache /\ [][NextCache]_vars

----------------------------------------------------------------------------
\* rangeExtractor on any range of any list

InitRange ==
    /\ PanelIdle
    /\ CacheIdle
    /\ ItemIdle
    /\ rxCount \in 1..MaxCount
    /\ \E first \in 0..(rxCount - 1) : \E last \in first..(rxCount - 1) :
           rxRange = [startIndex |-> first, endIndex |-> last,
                      overscan |-> Overscan, count |-> rxCount]
    /\ rxIndexes = <<>>

\* The virtualizer calls rangeExtractor(range)
ExtractRange ==
    /\ rxIndexes = <<>>
    /\ rxIndexes' = rangeExtractor(rxRange, rxCount)
    /\ UNCHANGED <<rxCount, rxRange>>

NextRange == ExtractRange /\ UNCHANGED <<panelVars, cacheVars, itemVars>>

SpecRange == InitRange /\ [][NextRange]_vars

----------------------------------------------------------------------------
\* The loader under every section and search text the provider may hold when
\* the panel mounts, a section the loader has no case for among them

InitLoader ==
    /\ searchInput \in SearchInputs
    /\ recentGifs \in {0, RecentsLen}
    /\ selectedGifsSection \in FunGifsSection \cup {UnknownSection}
    /\ debouncedQuery = GifsQuery(selectedGifsSection, Trim(searchInput))
    /\ timeout = NoTimeout
    /\ lingering = FALSE
    /\ LET started == StartQuery(debouncedQuery, {})
       IN  queryState = started.qs /\ loads = started.loads
    /\ scrollOffset = 0
    /\ selectedItemKey = NoKey
    /\ sinceInput = DebounceTicks
    /\ sinceQuery = DebounceTicks
    /\ fetchNextCalls = 0
    /\ ev = "mount"
    /\ mounted = TRUE
    /\ pendingTimers = 0
    /\ timerEv = "none"
    /\ prefetched = FALSE
    /\ CacheIdle
    /\ RangeIdle
    /\ ItemIdle

NextLoader ==
    \/ \E l \in loads : \E page \in ServerPages(l.req) :
           PanelStep(LoadResolves(l, page))
    \/ \E l \in loads : PanelStep(LoadRejects(l))
    \/ PanelStep(Retry)

SpecLoader == InitLoader /\ [][NextLoader]_vars

----------------------------------------------------------------------------
\* One Item over the media cache: mounts, unmounts, its download, presses

\* A step of the Item leaves the panel and the extractor's record alone
ItemStep(A) == A /\ UNCHANGED <<panelVars, rangeVars>>

InitItem == PanelIdle /\ CacheIdle /\ RangeIdle /\ ItemIdle

NextItem ==
    \/ \E gif \in GifTypes : ItemStep(ItemMount(gif))
    \/ ItemStep(ItemUnmount)
    \/ \E d \in downloads : \E outcome \in FetchGifOutcomes(d) :
           \E blob \in Blobs : ItemStep(DownloadSettles(d, outcome, blob))
    \/ ItemStep(PressGif)

SpecItem == InitItem /\ [][NextItem]_vars

----------------------------------------------------------------------------
\* The lightbox over one Item and the media cache, with the downloads of
\* the Items rendered beside it

InitLightbox == PanelIdle /\ CacheIdle /\ RangeIdle /\ ItemIdle

NextLightbox ==
    \/ \E gif \in GifTypes : ItemStep(ItemMount(gif))
    \/ ItemStep(ItemUnmount)
    \/ \E d \in downloads : \E outcome \in FetchGifOutcomes(d) :
           \E blob \in Blobs : ItemStep(DownloadSettles(d, outcome, blob))
    \/ ItemStep(LightboxOpens)
    \/ ItemStep(LightboxCloses)
    \/ \E blob \in Blobs : ItemStep(OtherItemSaves(blob))

SpecLightbox == InitLightbox /\ [][NextLightbox]_vars

----------------------------------------------------------------------------
\* Claims

CurrentQuery == GifsQuery(selectedGifsSection, searchQuery)

\* C1, as stated: the stabilized query only changes to a query with empty
\* search text, or to the query of the text present once a full debounce
\* window has passed since the last edit of the search box; and every load in
\* flight is one of the stabilized query.
C1_WindowSinceLastEdit ==
    /\ [](\A l \in ActiveLoads(loads) : l.query = debouncedQuery)
    /\ [][debouncedQuery' # debouncedQuery =>
             /\ debouncedQuery' = CurrentQuery'
             /\ \/ debouncedQuery'.searchQuery = <<>>
                \/ /\ searchInput' = searchInput
                   /\ sinceInput >= DebounceTicks]_vars

\* C1, amended: the window runs from the last change of the trimmed text or
\* of the section; an edit of leading or trailing whitespace alone does not
\* restart it.
C1_WindowSinceLastQueryChange ==
    /\ [](\A l \in ActiveLoads(loads) : l.query = debouncedQuery)
    /\ [][debouncedQuery' # debouncedQuery =>
             /\ debouncedQuery' = CurrentQuery'
             /\ \/ debouncedQuery'.searchQuery = <<>>
                \/ /\ CurrentQuery' = CurrentQuery
                   /\ sinceQuery >= DebounceTicks]_vars

\* C1: "a" was replaced by "ab" and the timer applied "ab": its load is in
\* flight
C1_Witness ==
    /\ ev = "timeout"
    /\ debouncedQuery.searchQuery = <<"a", "b">>
    /\ \E l \in ActiveLoads(loads) :
           l.query = debouncedQuery /\ l.req.term = <<"a", "b">>

\* C2: the item list never holds items of two lists: every item comes from
\* the list the engine's query asks for.
C2_NoCrossQueryItems ==
    \A i \in DOMAIN items :
        /\ items[i].src = items[1].src
        /\ items[i].src = Source(loader(queryState.query, NoCursor))

\* C2: the query changed while a next page of the previous query was being
\* loaded, and a page of the new query has arrived
C2_Witness ==
    /\ ev = "resolve"
    /\ count > 0
    /\ \E l \in StaleLoads(loads) :
           l.query # queryState.query /\ l.req.cursor # NoCursor

\* The pages continue one another, and at most one load is not aborted
InRequestOrder ==
    /\ \A i \in DOMAIN queryState.pages :
           queryState.pages[i].first =
               (IF i = 1 THEN 0 ELSE queryState.pages[i - 1].next)
    /\ Cardinality(ActiveLoads(loads)) <= 1
    /\ \A l \in ActiveLoads(loads) :
           l.req.cursor = (IF queryState.pages = <<>> THEN NoCursor
                           ELSE queryState.pages[Len(queryState.pages)].next)

\* C3: the completion of an aborted load leaves the engine state as it was,
\* and the pages are appended in the order of their requests.
C3_StaleLoadsDropped ==
    /\ [][\A l \in StaleLoads(loads) :
              loads' = loads \ {l} => queryState' = queryState]_vars
    /\ []InRequestOrder

\* C3: an aborted load has completed while the current query has its items
C3_Witness ==
    /\ ev = "dropped"
    /\ count > 0
    /\ ~queryState.rejected

\* The entries a step removes from the LRUCache, but for the key it writes
RemovedAt(i) ==
    /\ FunGifBlobCache[i].key \notin Keys(FunGifBlobCache')
    /\ FunGifBlobCache[i].key # cacheOp'.media.url

\* C4: the LRUCache never holds more than MAX_CACHE_SIZE bytes, and what a
\* write evicts are the entries at the least recently used end.
C4_ByteBudget ==
    /\ [](calculatedSize(FunGifBlobCache) <= MAX_CACHE_SIZE)
    /\ [][\A i \in DOMAIN FunGifBlobCache :
              RemovedAt(i) => \A j \in 1..i : RemovedAt(j)
                                 \/ FunGifBlobCache[j].key = cacheOp'.media.url]_vars

\* C4: a write has evicted an entry and filled the cache to its bound
C4_Witness ==
    /\ cacheOp.op = "save"
    /\ evicted # {}
    /\ calculatedSize(FunGifBlobCache) = MAX_CACHE_SIZE

\* C5: a reachable GifMediaType object reads back the blob last saved under
\* it, whatever was saved under other objects.
C5_RoundTrip ==
    \A m \in liveRefs :
        m \in DOMAIN saved =>
            readGifMediaFromCache(FunGifBlobLiveCache, FunGifBlobCache, m).blob
                = saved[m]

\* C5: two objects of one url hold different blobs, and the one whose blob
\* the LRUCache no longer holds has been read
C5_Witness ==
    /\ cacheOp.op = "read"
    /\ cacheOp.media \in DOMAIN saved
    /\ cacheOp.blob = saved[cacheOp.media]
    /\ \E m \in liveRefs \ {cacheOp.media} :
           /\ m.url = cacheOp.media.url
           /\ m \in DOMAIN saved
           /\ saved[m] # cacheOp.blob
           /\ LruPeek(FunGifBlobCache, m.url) = saved[m]

\* C6, as stated: what a write evicts was read or written less recently than
\* every entry it leaves, a read served by the WeakMap counting as well.
C6_LruByAnyAccess ==
    \A u \in evicted : \A k \in Keys(FunGifBlobCache) : Before(anyAccess, u, k)

\* C6, amended: a read counts as an access of its url only when it reaches
\* the LRUCache, that is when the WeakMap has nothing for the object.
C6_LruByDurableAccess ==
    \A u \in evicted : \A k \in Keys(FunGifBlobCache) : Before(durableAccess, u, k)

\* C6: a write has evicted an entry whose url was read through the WeakMap
\* after the last access of an entry the write leaves
C6_Witness ==
    /\ cacheOp.op = "save"
    /\ \E u \in evicted : \E k \in Keys(FunGifBlobCache) :
           Before(durableAccess, u, k) /\ Before(anyAccess, k, u)

\* C7: the indexes rangeExtractor returns hold 0 and count - 1.
C7_BoundaryIndexes ==
    rxIndexes # <<>> =>
        Includes(rxIndexes, 0) /\ Includes(rxIndexes, rxCount - 1)

\* C7: the range with its overscan reaches neither end of the list
C7_Witness ==
    /\ rxIndexes # <<>>
    /\ rxRange.startIndex - Overscan > 0
    /\ rxRange.endIndex + Overscan < rxCount - 1

\* C8: between two changes of the item count the prefetch effect calls
\* fetchNextPage() at most once.
C8_PrefetchOncePerCrossing == fetchNextCalls <= 1

\* C9: when a load has just been rejected the engine is in the rejected
\* state and no load is in flight.
C9_NoAutomaticRetry ==
    ev = "reject" => queryState.rejected /\ ActiveLoads(loads) = {}

\* C10: while there are items, exactly one rendered item is tabbable.
C10_ExactlyOneTabbable ==
    count # 0 => Cardinality(TabbableIndexes) = 1

\* C11: the download of an Item that is no longer mounted has its signal
\* aborted, and when an aborted download settles nothing is written to the
\* cache and nothing is logged.
C11_UnmountCancelsDownload ==
    /\ [](\A d \in downloads :
              ~(item.mounted /\ item.instance = d.instance) => d.aborted)
    /\ [][\A d \in downloads :
              (d.aborted /\ d \notin downloads') =>
                  /\ FunGifBlobCache' = FunGifBlobCache
                  /\ FunGifBlobLiveCache' = FunGifBlobLiveCache
                  /\ logged' = logged]_vars

\* C11: an Item unmounted with its download in flight, and the download has
\* settled since
C11_Witness ==
    /\ itemEv = "AbortError"
    /\ ~item.mounted
    /\ item.src = NoSrc
    /\ downloads = {}

\* C12: an object URL is not revoked while it is the src of the mounted Item
\* and has been revoked once in every other state.
C12_RevokedExactlyOnce ==
    \A u \in DOMAIN objectUrls :
        objectUrls[u].revoked =
            (IF item.mounted /\ item.src = u THEN 0 ELSE 1)

\* C12: a URL of a cache hit and a URL of a download were created by two
\* Item instances, and both instances have unmounted
C12_Witness ==
    /\ ~item.mounted
    /\ Len(objectUrls) = 2
    /\ objectUrls[1].owner # objectUrls[2].owner
    /\ logged = {}

\* C13: the calls made are, press by press, one onSelectGif with the pressed
\* gif's id, title and description and its attachmentMedia's url, width and
\* height, then one onClose.
C13_SelectThenClose ==
    /\ Len(outbox) = 2 * Len(pressed)
    /\ \A i \in DOMAIN pressed :
           /\ outbox[2 * i - 1] =
                  [call |-> "onSelectGif",
                   selection |->
                       {[id |-> pressed[i].id,
                         title |-> pressed[i].title,
                         description |-> pressed[i].description,
                         url |-> pressed[i].attachmentMedia.url,
                         width |-> pressed[i].attachmentMedia.width,
                         height |-> pressed[i].attachmentMedia.height]}]
           /\ outbox[2 * i].call = "onClose"

\* C13: two different gifs have been pressed
C13_Witness ==
    /\ Len(pressed) = 2
    /\ pressed[1].id # pressed[2].id

\* The retry button is rendered
RetryShown == count = 0 /\ queryState.rejected

C15_PageSizePolicy ==
    /\ \A l \in loads :
           l.req.limit = (IF l.req.cursor = NoCursor THEN 10 ELSE 30)
    /\ \A l \in ActiveLoads(loads) :
           l.req.cursor = (IF queryState.pages = <<>> THEN NoCursor
                           ELSE queryState.pages[Len(queryState.pages)].next)
    /\ \A i \in DOMAIN queryState.pages :
           /\ queryState.pages[i].n <= (IF i = 1 THEN 10 ELSE 30)
           /\ i > 1 => queryState.pages[i].first = queryState.pages[i - 1].next

\* C15: trending has 40 items, 10 of its first page and 30 of its second
C15_Witness ==
    /\ queryState.query = GifsQuery(Trending, <<>>)
    /\ Len(queryState.pages) = 2
    /\ queryState.pages[1].next = 10
    /\ count = 40

\* The fetch C16 expects of a query
ExpectedFetch(query) ==
    IF query.searchQuery # <<>>
    THEN [kind |-> "search", term |-> Trim(searchInput)]
    ELSE CASE query.selectedSection = Trending ->
                  [kind |-> "featured", term |-> <<>>]
           [] query.selectedSection = Celebrate ->
                  [kind |-> "search", term |-> <<"celebrate">>]
           [] query.selectedSection = Love ->
                  [kind |-> "search", term |-> <<"love">>]
           [] query.selectedSection = ThumbsUp ->
                  [kind |-> "search", term |-> <<"thumbs-up">>]
           [] query.selectedSection = Surprised ->
                  [kind |-> "search", term |-> <<"surprised">>]
           [] query.selectedSection = Excited ->
                  [kind |-> "search", term |-> <<"excited">>]
           [] query.selectedSection = Sad ->
                  [kind |-> "search", term |-> <<"sad">>]
           [] query.selectedSection = Angry ->
                  [kind |-> "search", term |-> <<"angry">>]
           [] OTHER -> [kind |-> "none", term |-> <<>>]

\* C16: the recents are listed without a fetch and without a cursor; every
\* other query is fetched from the list the claim names for it.
C16_LoaderDispatch ==
    LET query == queryState.query
    IN  /\ (query.searchQuery = <<>> /\ query.selectedSection = Recents) =>
               /\ loads = {}
               /\ ~queryState.pending /\ ~queryState.hasNextPage
               /\ count = recentGifs
               /\ \A i \in DOMAIN items : items[i].src.kind = "recents"
        /\ ExpectedFetch(query).kind # "none" =>
               /\ \A l \in loads : Source(l.req) = ExpectedFetch(query)
               /\ \A i \in DOMAIN items : items[i].src = ExpectedFetch(query)
               /\ (queryState.pending => loads # {})

\* C16: the recents section is selected with a search text, and the trimmed
\* text is what has been searched
C16_Witness ==
    /\ searchInput = <<"a", " ">>
    /\ queryState.query.selectedSection = Recents
    /\ recentGifs > 0
    /\ count > 0
    /\ items[1].src = [kind |-> "search", term |-> <<"a">>]

\* C17, as stated: an edit of the search box selects search-results when the
\* trimmed text goes from empty to non-empty, selects recents (or trending,
\* without recents) when it goes from non-empty to empty, and leaves the
\* selected section alone otherwise.
C17_SectionOnlyOnTransitions ==
    [][searchInput' # searchInput =>
          LET was == Trim(searchInput) # <<>>
              is == Trim(searchInput') # <<>>
          IN  selectedGifsSection' =
                  (IF ~was /\ is THEN SearchResults
                   ELSE IF was /\ ~is
                   THEN (IF recentGifs > 0 THEN Recents ELSE Trending)
                   ELSE selectedGifsSection)]_vars

C20_AtMostOneTimer ==
    /\ pendingTimers <= 1
    /\ pendingTimers = (IF timeout.set THEN 1 ELSE 0)

\* C20: a switch of the section ran the effect again while its timer was
\* pending, and the effect set another
C20_Witness ==
    /\ ev = "section"
    /\ timerEv = "restarted"
    /\ pendingTimers = 1

\* What a read is to return: the WeakMap's blob of the object, else the
\* LRUCache's blob of its url, else nothing
ReadsIdentityFirst ==
    cacheOp.op = "read" =>
        cacheOp.blob =
            (IF cacheOp.media \in DOMAIN FunGifBlobLiveCache
             THEN FunGifBlobLiveCache[cacheOp.media]
             ELSE LruPeek(FunGifBlobCache, cacheOp.media.url))

\* C21, as stated: a read returns the WeakMap's blob, else the LRUCache's,
\* else nothing; after a save the WeakMap holds the blob under the object
\* and the LRUCache holds it under the object's url, whatever its size.
C21_WritePopulatesBothTiers ==
    /\ ReadsIdentityFirst
    /\ cacheOp.op = "save" =>
           /\ LiveGet(FunGifBlobLiveCache, cacheOp.media) = cacheOp.blob
           /\ LruPeek(FunGifBlobCache, cacheOp.media.url) = cacheOp.blob

\* C21, amended: after a save the WeakMap holds the blob; the LRUCache holds
\* it when its size is at most MAX_CACHE_SIZE, and has no entry for the url
\* when it is larger.
C21_WritePopulatesWhatFits ==
    /\ ReadsIdentityFirst
    /\ cacheOp.op = "save" =>
           /\ LiveGet(FunGifBlobLiveCache, cacheOp.media) = cacheOp.blob
           /\ IF cacheOp.blob.size <= MAX_CACHE_SIZE
              THEN LruPeek(FunGifBlobCache, cacheOp.media.url) = cacheOp.blob
              ELSE ~LruHas(FunGifBlobCache, cacheOp.media.url)

\* C21: a blob larger than MAX_CACHE_SIZE has been saved under an object
\* while the LRUCache holds the blob of another url
C21_Witness ==
    /\ cacheOp.op = "save"
    /\ cacheOp.blob.size > MAX_CACHE_SIZE
    /\ FunGifBlobLiveCache[cacheOp.media] = cacheOp.blob
    /\ FunGifBlobCache # <<>>

\* The end of the visible range with the overscan margin reaches the last
\* index, more pages exist, and there are items and a range
NearEndWithMore ==
    /\ count # 0
    /\ lastIndex # -1
    /\ lastIndex + 4 * 2 >= count - 1
    /\ queryState.hasNextPage

\* C22: the prefetch effect has called fetchNextPage() in every state where
\* the end of the range plus 8 reaches count - 1 and more pages exist, so no
\* such state is without a load in flight; and it has only called it in such
\* a state and with no other load in flight.
C22_PrefetchTrigger ==
    /\ (mounted /\ NearEndWithMore) =>
           queryState.pending /\ ActiveLoads(loads) # {}
    /\ prefetched =>
           /\ NearEndWithMore
           /\ Cardinality(ActiveLoads(loads)) = 1
           /\ \A l \in ActiveLoads(loads) :
                  /\ l.query = queryState.query
                  /\ l.req.cursor = queryState.pages[Len(queryState.pages)].next

\* C22: with 40 items listed and the range far from the end no page was
\* asked for; a scroll has brought the range within 8 of the end and the
\* effect has called fetchNextPage()
C22_Witness ==
    /\ ev = "scroll"
    /\ prefetched
    /\ count = 40
    /\ scrollOffset > 0

\* C23: when a download fails the Item keeps its null src, the failure is
\* logged, the caches, the object URLs, the other downloads and the panel's
\* query state and loads stay as they are, and no download is started; and
\* an Item instance whose download has failed has no download in flight.
C23_DownloadFailureIsLocal ==
    /\ [][\A d \in downloads :
              (itemEv' = "NetworkError" /\ d \notin downloads') =>
                  /\ item' = item
                  /\ item.src = NoSrc
                  /\ logged' = logged \cup {[instance |-> d.instance,
                                              error |-> "NetworkError"]}
                  /\ logged' # logged
                  /\ FunGifBlobCache' = FunGifBlobCache
                  /\ FunGifBlobLiveCache' = FunGifBlobLiveCache
                  /\ objectUrls' = objectUrls
                  /\ downloads' = downloads \ {d}
                  /\ queryState' = queryState
                  /\ loads' = loads]_vars
    /\ [](\A e \in logged : \A d \in downloads : d.instance # e.instance)

\* C23: the download of the mounted Item has failed while the download of
\* an Item that unmounted before is still in flight
C23_Witness ==
    /\ itemEv = "NetworkError"
    /\ item.mounted
    /\ item.src = NoSrc
    /\ \E e \in logged : e.instance = item.instance
    /\ \E d \in downloads : d.instance # item.instance

\* C24, as stated: whenever the lightbox key names a rendered item, the read
\* of its preview from the cache returned a blob: 'Missing media' is not
\* thrown.
C24_LightboxMediaPresent ==
    lightbox.key # NoLightboxKey => lightbox.result = "shown"

\* The query the loader's strictAssert rejects
AssertedAgainst(query) ==
    query.searchQuery = <<>> /\ query.selectedSection = SearchResults

\* C25: the loader is never called with an empty search text and the
\* search-results section: neither the stabilized query nor the engine's
\* query is such a query, and no first page was refused by the assertion.
C25_LoaderAssertionHolds ==
    /\ ~AssertedAgainst(debouncedQuery)
    /\ ~AssertedAgainst(queryState.query)
    /\ ~AssertedAgainst(CurrentQuery)
    /\ \A l \in loads : ~AssertedAgainst(l.query) /\ l.req.kind # "throw"

\* C25: the load of a search was in flight when an edit emptied the text:
\* it is aborted, and the loader has been called with the empty text
C25_Witness ==
    /\ ev = "input"
    /\ searchQuery = <<>>
    /\ queryState.query = CurrentQuery
    /\ \E l \in StaleLoads(loads) :
           l.query.selectedSection = SearchResults /\ l.req.kind = "search"

\* C26, as stated: a non-empty trimmed search text comes with the
\* search-results section, in the current query and in the stabilized one.
C26_NonEmptyTextIsSearchResults ==
    /\ searchQuery # <<>> => selectedGifsSection = SearchResults
    /\ debouncedQuery.searchQuery # <<>> =>
           debouncedQuery.selectedSection = SearchResults

\* C27: if from some point on the panel stays mounted and the section and
\* the trimmed search text no longer change, then from some point on the
\* stabilized query is the current query and no timer is pending.
C27_Stabilizes ==
    ([]mounted /\ <>[][CurrentQuery' = CurrentQuery]_vars)
        => <>[](/\ debouncedQuery = CurrentQuery
                /\ ~timeout.set
                /\ pendingTimers = 0)

\* C27: the section was switched during the debounce window of "ab", a full
\* window has passed since, and the timer has applied the current query
C27_Witness ==
    /\ timerEv = "fired"
    /\ searchQuery = <<"a", "b">>
    /\ selectedGifsSection # SearchResults
    /\ sinceQuery = DebounceTicks
    /\ debouncedQuery = CurrentQuery
    /\ ~timeout.set

====
